---------------------------- MODULE Spec2Model ----------------------------
(***************************************************************************)
(* BT Payment Triage (src/app.py): header normalisation, the not-paid      *)
(* reason engine, the unverified classifier, the preferred reason and the  *)
(* fuzzy search of the unverified view, as one run of main() over a sheet. *)
(*                                                                         *)
(* Text is modelled as a sequence of characters, each character a          *)
(* one-character string; a character outside ASCII is written by its code  *)
(* point ("U+00E9").  A cell is a tagged value (a string, an integer, a     *)
(* boolean or NaN, which is what pandas reads from an empty CSV cell).     *)
(***************************************************************************)
EXTENDS Integers, Sequences, FiniteSets, TLC

VARIABLES
    raw_columns,        \* df_raw.columns: the sheet's headers
    data,               \* the sheet's rows, each a sequence of cells aligned with the headers
    keyword,            \* the text typed in the fuzzy search box
    pc,                 \* where main() is: "loaded", "normalized", "derived", "done"
    columns,            \* df.columns
    rename_map,         \* the rename dict normalize_columns returns
    not_paid_reason,    \* df["not_paid_reason"], one text per row
    unverified,         \* df["unverified"], one boolean per row
    unverified_reason,  \* df["unverified_reason"] (= df["reason_session_unverified"])
    unverified_df       \* the unverified view: the index labels of its rows, in order

vars == <<raw_columns, data, keyword, pc, columns, rename_map,
          not_paid_reason, unverified, unverified_reason, unverified_df>>

-----------------------------------------------------------------------------
(* Python text operations *)

UpperChars == <<"A", "B", "C", "D", "E", "F", "G", "H", "I", "J", "K", "L", "M",
                "N", "O", "P", "Q", "R", "S", "T", "U", "V", "W", "X", "Y", "Z">>
LowerChars == <<"a", "b", "c", "d", "e", "f", "g", "h", "i", "j", "k", "l", "m",
                "n", "o", "p", "q", "r", "s", "t", "u", "v", "w", "x", "y", "z">>
DigitChars == <<"0", "1", "2", "3", "4", "5", "6", "7", "8", "9">>

Range(s) == {s[i] : i \in 1..Len(s)}

\* str.lower() on one character (ASCII letters; every other character is kept)
LowerOf == [c \in Range(UpperChars) |->
               LowerChars[CHOOSE i \in 1..Len(UpperChars) : UpperChars[i] = c]]
lower_char(c) == IF c \in DOMAIN LowerOf THEN LowerOf[c] ELSE c

\* str.lower()
lower(s) == [i \in 1..Len(s) |-> lower_char(s[i])]

\* the characters str.strip() removes (those of them the modelled text can hold)
Whitespace == {" ", "\t", "\n", "\r"}

\* s.strip(chars): drop the leading and trailing characters that are in chars
strip_chars(s, chars) ==
    LET keep == {i \in 1..Len(s) : s[i] \notin chars}
    IN  IF keep = {} THEN <<>>
        ELSE SubSeq(s, CHOOSE i \in keep : \A j \in keep : i <= j,
                       CHOOSE i \in keep : \A j \in keep : i >= j)

\* str.strip()
strip(s) == strip_chars(s, Whitespace)

\* Python's `sub in s` on text
Contains(sub, s) ==
    \E i \in 0..(Len(s) - Len(sub)) : SubSeq(s, i + 1, i + Len(sub)) = sub

\* str.startswith
startswith(s, prefix) ==
    Len(prefix) <= Len(s) /\ SubSeq(s, 1, Len(prefix)) = prefix

\* sep.join(parts)
RECURSIVE join(_, _)
join(sep, parts) ==
    IF parts = <<>> THEN <<>>
    ELSE IF Len(parts) = 1 THEN parts[1]
    ELSE parts[1] \o sep \o join(sep, Tail(parts))

\* str(n) of a non-negative integer
RECURSIVE str_int(_)
str_int(n) ==
    IF n < 10 THEN <<DigitChars[n + 1]>>
    ELSE str_int(n \div 10) \o <<DigitChars[(n % 10) + 1]>>

-----------------------------------------------------------------------------
(* Cells *)

StrCell(s)  == [kind |-> "str",  s |-> s,    n |-> 0, b |-> FALSE]
IntCell(n)  == [kind |-> "int",  s |-> <<>>, n |-> n, b |-> FALSE]
BoolCell(b) == [kind |-> "bool", s |-> <<>>, n |-> 0, b |-> b]
NaN         == [kind |-> "nan",  s |-> <<>>, n |-> 0, b |-> FALSE]

\* Python's truth value of a cell, which `x or ""` tests: "" , 0 and False are
\* false; NaN is a non-zero float and is true
truthy(cell) ==
    CASE cell.kind = "str"  -> cell.s # <<>>
      [] cell.kind = "int"  -> cell.n # 0
      [] cell.kind = "bool" -> cell.b
      [] cell.kind = "nan"  -> TRUE

\* str(cell)
str(cell) ==
    CASE cell.kind = "str"  -> cell.s
      [] cell.kind = "int"  -> str_int(cell.n)
      [] cell.kind = "bool" -> IF cell.b THEN <<"T", "r", "u", "e">>
                                         ELSE <<"F", "a", "l", "s", "e">>
      [] cell.kind = "nan"  -> <<"n", "a", "n">>

\* pd.isna(cell)
isna(cell) == cell.kind = "nan"

\* row.get(col, ""): a row is a function from the column names it has to cells
get(row, col) == IF col \in DOMAIN row THEN row[col] ELSE StrCell(<<>>)

-----------------------------------------------------------------------------
(* normalize_columns *)

\* the characters outside ASCII that the modelled headers use
NonAscii == {"U+00E9", "U+0301", "U+00DF", "U+00A0"}

\* unicodedata NFKD of one character: e-acute decomposes to e and the combining
\* acute accent, the no-break space to a space; sharp s has no decomposition
nfkd_char(c) ==
    CASE c = "U+00E9" -> <<"e", "U+0301">>
      [] c = "U+00A0" -> <<" ">>
      [] OTHER        -> <<c>>

\* .str.normalize("NFKD")
RECURSIVE nfkd(_)
nfkd(s) == IF s = <<>> THEN <<>> ELSE nfkd_char(Head(s)) \o nfkd(Tail(s))

IsAsciiChar(c) == c \notin NonAscii

\* .str.encode("ascii", errors="ignore").str.decode("ascii")
ascii_ignore(s) == SelectSeq(s, IsAsciiChar)

\* the class [0-9a-z]
AlnumLower == Range(DigitChars) \cup Range(LowerChars)
IsAlnumLower(c) == c \in AlnumLower

\* .str.replace(r"[^0-9a-z]+", "_", regex=True): every maximal run of characters
\* outside [0-9a-z] becomes one "_", written where the run starts
replace_runs(s) ==
    LET starts(i) == IsAlnumLower(s[i]) \/ i = 1 \/ IsAlnumLower(s[i - 1])
        kept == SelectSeq([i \in 1..Len(s) |-> i], starts)
    IN  [k \in 1..Len(kept) |-> IF IsAlnumLower(s[kept[k]]) THEN s[kept[k]] ELSE "_"]

\* normalize_header without the final .str.strip("_") (a faulty variant)
normalize_header_nostrip(h) == replace_runs(lower(ascii_ignore(nfkd(h))))

\* the chain of lines 12-18 on one header
normalize_header(h) ==
    strip_chars(replace_runs(lower(ascii_ignore(nfkd(h)))), {"_"})

\* normalize_columns(df): the renamed columns and the rename dict.
\* dict(zip(df.columns, clean)) keeps the last clean name of a repeated header;
\* df.rename looks every header up in it.
normalize_columns(cols) ==
    LET clean  == [i \in 1..Len(cols) |-> normalize_header(cols[i])]
        last(h) == CHOOSE i \in 1..Len(cols) :
                       cols[i] = h /\ \A j \in 1..Len(cols) : cols[j] = h => j <= i
        rename == [h \in Range(cols) |-> clean[last(h)]]
    IN  [columns |-> [i \in 1..Len(cols) |-> rename[cols[i]]], rename |-> rename]

-----------------------------------------------------------------------------
(* Column names and message texts *)

payroll_process == <<"p", "a", "y", "r", "o", "l", "l", "_", "p", "r", "o", "c", "e", "s", "s">>
location_status == <<"l", "o", "c", "a", "t", "i", "o", "n", "_", "s", "t", "a", "t", "u", "s">>
hours_status    == <<"h", "o", "u", "r", "s", "_", "s", "t", "a", "t", "u", "s">>
overall_status  == <<"o", "v", "e", "r", "a", "l", "l", "_", "s", "t", "a", "t", "u", "s">>
delta_vs_billing_hh_mm_ss ==
    <<"d", "e", "l", "t", "a", "_", "v", "s", "_", "b", "i", "l", "l", "i", "n", "g",
      "_", "h", "h", "_", "m", "m", "_", "s", "s">>
parent_s_signature_approval_for_time_adjustment_signature ==
    <<"p", "a", "r", "e", "n", "t", "_", "s", "_", "s", "i", "g", "n", "a", "t", "u", "r", "e",
      "_", "a", "p", "p", "r", "o", "v", "a", "l", "_", "f", "o", "r", "_", "t", "i", "m", "e",
      "_", "a", "d", "j", "u", "s", "t", "m", "e", "n", "t", "_", "s", "i", "g", "n", "a", "t",
      "u", "r", "e">>
parent_s_signature_approval_for_time_adjustment_signature_time == parent_s_signature_approval_for_time_adjustment_signature \o <<"_", "t", "i", "m", "e">>
aloha_status    == <<"a", "l", "o", "h", "a", "_", "s", "t", "a", "t", "u", "s">>
other_notes     == <<"o", "t", "h", "e", "r", "_", "n", "o", "t", "e", "s">>
staff_name      == <<"s", "t", "a", "f", "f", "_", "n", "a", "m", "e">>
phone           == <<"p", "h", "o", "n", "e">>
client          == <<"c", "l", "i", "e", "n", "t">>
not_paid_reason_col   == <<"n", "o", "t", "_", "p", "a", "i", "d", "_", "r", "e", "a", "s", "o", "n">>
unverified_col        == <<"u", "n", "v", "e", "r", "i", "f", "i", "e", "d">>
unverified_reason_col == unverified_col \o <<"_", "r", "e", "a", "s", "o", "n">>
reason_session_unverified_col ==
    <<"r", "e", "a", "s", "o", "n", "_", "s", "e", "s", "s", "i", "o", "n", "_">> \o unverified_col

MsgPayroll == <<"P", "a", "y", "r", "o", "l", "l", " ", "p", "r", "o", "c", "e", "s", "s", " ",
                "f", "l", "a", "g", " ", "i", "s", " ", "F", "A", "L", "S", "E">>
MsgGps     == <<"M", "i", "s", "s", "i", "n", "g", " ", "G", "P", "S">>
MsgHours   == <<"H", "o", "u", "r", "s", " ", "s", "t", "a", "t", "u", "s", " ">>
MsgOverall == <<"O", "v", "e", "r", "a", "l", "l", " ", "s", "t", "a", "t", "u", "s", " ">>
MsgDelta   == <<"D", "e", "l", "t", "a", " ", "v", "s", " ", "b", "i", "l", "l", "i", "n", "g", " ">>
MsgParent  == <<"P", "a", "r", "e", "n", "t", " ", "s", "i", "g", "n", "a", "t", "u", "r", "e", " ",
                "p", "r", "e", "s", "e", "n", "t", " ", "b", "u", "t", " ", "m", "i", "s", "s",
                "i", "n", "g", " ", "t", "i", "m", "e", " ", "s", "t", "a", "m", "p">>
MsgAloha   == <<"A", "l", "o", "h", "a", " ", "s", "t", "a", "t", "u", "s", " ">>
ReadyToBill == <<"R", "e", "a", "d", "y", " ", "t", "o", " ", "b", "i", "l", "l">>
NoReasonProvided == <<"N", "o", " ", "r", "e", "a", "s", "o", "n", " ", "p", "r", "o", "v", "i",
                      "d", "e", "d">>
CommaSpace == <<",", " ">>

\* the tuples of lines 29 and 39
PayrollNegatives == {<<"f", "a", "l", "s", "e">>, <<"0">>, <<"n", "o">>}
ZeroDurations    == {<<>>, <<"0", ":", "0", "0", ":", "0", "0">>, <<"0", ":", "0", ":", "0">>, <<"0">>}

-----------------------------------------------------------------------------
(* derive_reasons *)

\* val = lambda col: str(row.get(col, "") or "").strip()
val(row, col) ==
    LET cell == get(row, col)
    IN  strip(str(IF truthy(cell) THEN cell ELSE StrCell(<<>>)))

\* the list `reasons` at line 51, built by the appends of lines 29-49 in order
reasons(row) ==
    LET r1 == IF lower(val(row, payroll_process)) \in PayrollNegatives
              THEN <<MsgPayroll>> ELSE <<>>
        r2 == IF Contains(<<"m", "i", "s", "s", "i", "n", "g", " ", "g", "p", "s">>,
                          lower(val(row, location_status)))
              THEN Append(r1, MsgGps) ELSE r1
        r3 == IF startswith(lower(val(row, hours_status)), <<"p", "e", "n", "d", "i", "n", "g">>)
              THEN Append(r2, MsgHours \o val(row, hours_status)) ELSE r2
        r4 == IF startswith(lower(val(row, overall_status)), <<"p", "e", "n", "d", "i", "n", "g">>)
              THEN Append(r3, MsgOverall \o val(row, overall_status)) ELSE r3
        delta == val(row, delta_vs_billing_hh_mm_ss)
        r5 == IF delta \notin ZeroDurations
              THEN Append(r4, MsgDelta \o delta) ELSE r4
        sig      == val(row, parent_s_signature_approval_for_time_adjustment_signature)
        sig_time == val(row, parent_s_signature_approval_for_time_adjustment_signature_time)
        r6 == IF sig # <<>> /\ sig_time = <<>>
              THEN Append(r5, MsgParent) ELSE r5
        aloha == val(row, aloha_status)
        r7 == IF aloha # <<>> /\ ~Contains(<<"r", "e", "a", "d", "y">>, lower(aloha))
              THEN Append(r6, MsgAloha \o aloha) ELSE r6
    IN  r7

\* derive_reasons without the Aloha rule of lines 47-49 (a faulty variant)
derive_reasons_no_aloha(row) ==
    LET rs == reasons(row)
        kept == SelectSeq(rs, LAMBDA m : ~startswith(m, MsgAloha))
    IN  IF kept # <<>> THEN join(CommaSpace, kept) ELSE ReadyToBill

derive_reasons(row) ==
    LET rs == reasons(row)
    IN  IF rs # <<>> THEN join(CommaSpace, rs) ELSE ReadyToBill

-----------------------------------------------------------------------------
(* row_reason_from_notes_or_hours and is_unverified *)

\* the inner clean(val) of lines 56-59
clean(cell) == IF isna(cell) THEN <<>> ELSE strip(str(cell))

\* hours_status preferred to other_notes (a faulty variant)
row_reason_hours_first(row) ==
    LET hours == clean(get(row, hours_status))
        other == clean(get(row, other_notes))
    IN  IF hours # <<>> THEN hours
        ELSE IF other # <<>> THEN other ELSE NoReasonProvided

row_reason_from_notes_or_hours(row) ==
    LET other == clean(get(row, other_notes))
        hours == clean(get(row, hours_status))
    IN  IF other # <<>> THEN other
        ELSE IF hours # <<>> THEN hours ELSE NoReasonProvided

\* is_unverified without the .lower() of line 71 (a faulty variant)
is_unverified_case_sensitive(row) ==
    LET v == IF isna(get(row, aloha_status)) THEN <<>> ELSE str(get(row, aloha_status))
    IN  \E term \in {<<"u", "n", "v", "e", "r", "i", "f", "i", "e", "d">>,
                     <<"c", "a", "n", "c", "e", "l", "l", "e", "d">>} :
            Contains(term, v)

is_unverified(row) ==
    LET cell == get(row, aloha_status)
        v    == IF isna(cell) THEN <<>> ELSE lower(str(cell))
    IN  \E term \in {<<"u", "n", "v", "e", "r", "i", "f", "i", "e", "d">>,
                     <<"c", "a", "n", "c", "e", "l", "l", "e", "d">>} :
            Contains(term, v)

-----------------------------------------------------------------------------
(* The fuzzy search of the unverified view *)

\* the threshold 0.6 of line 152, as the fraction ThresholdNum / ThresholdDen
ThresholdNum == 6
ThresholdDen == 10

\* difflib.SequenceMatcher(None, a, b): the number of matched characters, the
\* sum of the sizes of get_matching_blocks().  find_longest_match returns the
\* longest common block, of those the one starting earliest in a, of those the
\* one starting earliest in b; the blocks left and right of it are matched
\* recursively.  (No junk: isjunk is None and b is shorter than 200.)
RECURSIVE matched_chars(_, _)
matched_chars(a, b) ==
    LET blocks == {t \in (1..Len(a)) \X (1..Len(b)) \X (1..Len(a)) :
                      /\ t[1] + t[3] - 1 <= Len(a)
                      /\ t[2] + t[3] - 1 <= Len(b)
                      /\ SubSeq(a, t[1], t[1] + t[3] - 1) = SubSeq(b, t[2], t[2] + t[3] - 1)}
        before(t, u) == \/ t[3] > u[3]
                        \/ t[3] = u[3] /\ t[1] < u[1]
                        \/ t[3] = u[3] /\ t[1] = u[1] /\ t[2] <= u[2]
    IN  IF blocks = {} THEN 0
        ELSE LET m == CHOOSE t \in blocks : \A u \in blocks : before(t, u)
             IN  m[3]
                 + matched_chars(SubSeq(a, 1, m[1] - 1), SubSeq(b, 1, m[2] - 1))
                 + matched_chars(SubSeq(a, m[1] + m[3], Len(a)),
                                 SubSeq(b, m[2] + m[3], Len(b)))

\* SequenceMatcher(None, a, b).ratio() >= num/den, where ratio() is
\* 2.0 * matches / (len(a) + len(b)), and 1.0 when both are empty
ratio_at_least(a, b, num, den) ==
    IF Len(a) + Len(b) = 0 THEN num <= den
    ELSE 2 * matched_chars(a, b) * den >= num * (Len(a) + Len(b))

\* row_matches (lines 140-154) with the threshold num/den
row_matches_with(row, key, search_cols, num, den) ==
    LET text == lower(join(<<" ", "|", " ">>,
                           [i \in 1..Len(search_cols) |-> str(get(row, search_cols[i]))]))
    IN  \/ Contains(key, text)
        \/ \E i \in 1..Len(search_cols) :
               LET v == lower(str(get(row, search_cols[i])))
               IN  v # <<>> /\ ratio_at_least(key, v, num, den)

\* row_matches with the threshold 0.4 (a faulty variant)
row_matches_low_threshold(row, key, search_cols) ==
    row_matches_with(row, key, search_cols, 4, 10)

row_matches(row, key, search_cols) ==
    row_matches_with(row, key, search_cols, ThresholdNum, ThresholdDen)

\* lines 135-138: the preferred columns that exist, else every column
search_columns(cols) ==
    LET preferred == SelectSeq(<<staff_name, phone, client>>, LAMBDA c : c \in Range(cols))
    IN  IF preferred = <<>> THEN cols ELSE preferred

-----------------------------------------------------------------------------
(* main() *)

\* a row of the sheet as the Series df.apply(..., axis=1) passes
sheet_row(cols, cells) ==
    [c \in Range(cols) |-> cells[CHOOSE i \in 1..Len(cols) : cols[i] = c]]

\* df[name] = ...: a new column is appended, an existing one is overwritten in place
add_column(cols, name) == IF name \in Range(cols) THEN cols ELSE Append(cols, name)

\* row i of df once lines 119-122 have added the derived columns
df_row(i) ==
    [c \in Range(columns) |->
        CASE c = not_paid_reason_col -> StrCell(not_paid_reason[i])
          [] c = unverified_col      -> BoolCell(unverified[i])
          [] c = unverified_reason_col -> StrCell(unverified_reason[i])
          [] c = reason_session_unverified_col -> StrCell(unverified_reason[i])
          [] OTHER -> data[i][CHOOSE k \in 1..Len(columns) : columns[k] = c]]

\* df[mask]: the index labels of the rows the mask keeps, in order
boolean_index(labels, keep(_)) == SelectSeq(labels, keep)

\* line 104
Normalize ==
    /\ pc = "loaded"
    /\ LET result == normalize_columns(raw_columns)
       IN  /\ columns' = result.columns
           /\ rename_map' = result.rename
    /\ pc' = "normalized"
    /\ UNCHANGED <<raw_columns, data, keyword, not_paid_reason, unverified,
                   unverified_reason, unverified_df>>

\* lines 119-122 (the sheets modelled have no appt_date, scheduled_minutes or
\* actual_minutes column, so lines 107-116 do nothing)
Derive ==
    /\ pc = "normalized"
    /\ not_paid_reason' =
           [i \in 1..Len(data) |-> derive_reasons(sheet_row(columns, data[i]))]
    /\ unverified' =
           [i \in 1..Len(data) |-> is_unverified(sheet_row(columns, data[i]))]
    /\ unverified_reason' =
           [i \in 1..Len(data) |-> row_reason_from_notes_or_hours(sheet_row(columns, data[i]))]
    /\ columns' = add_column(add_column(add_column(add_column(columns,
                      not_paid_reason_col), unverified_col), unverified_reason_col),
                      reason_session_unverified_col)
    /\ pc' = "derived"
    /\ UNCHANGED <<raw_columns, data, keyword, rename_map, unverified_df>>

\* the unverified view that ignores the search box (a faulty variant)
unverified_view_unsearched == 
    boolean_index([i \in 1..Len(data) |-> i], LAMBDA i : unverified[i])

\* lines 130-156: unverified_df, narrowed by the search when a keyword is given
unverified_view ==
    LET all_rows == [i \in 1..Len(data) |-> i]
        flagged  == boolean_index(all_rows, LAMBDA i : unverified[i])
        key      == strip(lower(keyword))
        cols     == search_columns(columns)
    IN  IF keyword # <<>>
        THEN boolean_index(flagged, LAMBDA i : row_matches(df_row(i), key, cols))
        ELSE flagged

View ==
    /\ pc = "derived"
    /\ unverified_df' = unverified_view
    /\ pc' = "done"
    /\ UNCHANGED <<raw_columns, data, keyword, columns, rename_map, not_paid_reason,
                   unverified, unverified_reason>>

Next == Normalize \/ Derive \/ View

-----------------------------------------------------------------------------
(* The sheets the runs start from *)

\* Bounds of the modelled sheets
MaxRows == 2            \* rows of a sheet of the search runs
MaxHeaderLen == 3       \* characters of the free header of a header run
MaxExtraHeaders == 1    \* sample headers that follow the free header

Text_FALSE    == <<"F", "A", "L", "S", "E">>
Text_TRUE     == <<"T", "R", "U", "E">>
Text_No       == <<" ", "N", "o", " ">>
Text_Zero     == <<"0">>
Text_GpsLost  == <<"M", "i", "s", "s", "i", "n", "g", " ", "G", "P", "S", " ", "a", "t", " ",
                   "s", "t", "a", "r", "t">>
Text_OK       == <<"O", "K">>
Text_PendingReview == <<"P", "e", "n", "d", "i", "n", "g", " ", "r", "e", "v", "i", "e", "w">>
Text_Approved == <<"A", "p", "p", "r", "o", "v", "e", "d">>
Text_PENDING  == <<"P", "E", "N", "D", "I", "N", "G">>
Text_Pending  == <<"P", "e", "n", "d", "i", "n", "g">>
Text_Done     == <<"D", "o", "n", "e">>
Text_Blank    == <<" ", " ">>
Text_000      == <<"0", ":", "0", ":", "0">>
Text_00000    == <<"0", ":", "0", "0", ":", "0", "0">>
Text_00001    == <<"0", ":", "0", "0", ":", "0", "1">>
Text_000Padded == <<" ", "0", ":", "0", ":", "0", " ">>
Text_JDoe     == <<"J", ".", " ", "D", "o", "e">>
Text_900      == <<"9", ":", "0", "0">>
Text_Ready    == <<"R", "e", "a", "d", "y">>
Text_CancelledByClient ==
    <<"C", "a", "n", "c", "e", "l", "l", "e", "d", " ", "b", "y", " ", "c", "l", "i", "e", "n", "t">>
Text_Unverified == <<"U", "n", "v", "e", "r", "i", "f", "i", "e", "d">>
Text_UNVERIFIED == <<"U", "N", "V", "E", "R", "I", "F", "I", "E", "D">>
Text_CancelledReady ==
    <<"C", "a", "n", "c", "e", "l", "l", "e", "d", ",", " ", "r", "e", "a", "d", "y", " ",
      "t", "o", " ", "r", "e", "b", "o", "o", "k">>
Text_NotReady == <<"N", "o", "t", " ", "R", "e", "a", "d", "y">>
Text_OnHold   == <<"O", "n", " ", "h", "o", "l", "d">>
Text_CallBack == <<" ", "c", "a", "l", "l", " ", "b", "a", "c", "k", " ">>
Text_JohnSmith == <<"J", "o", "h", "n", " ", "S", "m", "i", "t", "h">>
Text_Jon      == <<"J", "o", "n">>
Text_jon      == <<"j", "o", "n">>
Text_JOHN     == <<"J", "O", "H", "N">>
Text_na       == <<"n", "a">>

\* a column the sheet does not have (only in the description of a sheet)
Absent == [kind |-> "absent", s |-> <<>>, n |-> 0, b |-> FALSE]

\* the columns derive_reasons, is_unverified and row_reason_from_notes_or_hours read
RowColumns ==
    <<payroll_process, location_status, hours_status, overall_status,
      delta_vs_billing_hh_mm_ss,
      parent_s_signature_approval_for_time_adjustment_signature,
      parent_s_signature_approval_for_time_adjustment_signature_time,
      aloha_status, other_notes>>

\* ordinary text cells of each column: per rule one value that fires it and one that does not
Plain ==
    << {StrCell(Text_FALSE), StrCell(Text_TRUE)},
       {StrCell(Text_GpsLost), StrCell(Text_OK)},
       {StrCell(Text_PendingReview), StrCell(Text_Approved)},
       {StrCell(Text_Pending), StrCell(Text_Done)},
       {StrCell(Text_00001), StrCell(Text_000)},
       {StrCell(Text_JDoe)},
       {StrCell(<<>>), StrCell(Text_900)},
       {StrCell(Text_CancelledByClient), StrCell(Text_Ready)},
       {NaN, StrCell(Text_CallBack)} >>

\* the other cells a column can hold: absent, empty (NaN), numbers, padded or
\* differently cased text
Unusual ==
    << {Absent, NaN, StrCell(<<>>), IntCell(0), IntCell(1), StrCell(Text_No),
        StrCell(Text_Zero), BoolCell(FALSE)},
       {Absent, NaN, StrCell(<<>>), IntCell(0)},
       {Absent, NaN, StrCell(<<>>), StrCell(Text_Blank), StrCell(Text_PENDING), IntCell(0)},
       {Absent, NaN, StrCell(<<>>)},
       {Absent, NaN, StrCell(<<>>), StrCell(Text_00000), StrCell(Text_Zero), IntCell(0),
        IntCell(5), StrCell(Text_000Padded)},
       {Absent, NaN, StrCell(<<>>)},
       {Absent, NaN},
       {Absent, NaN, StrCell(<<>>), StrCell(Text_Unverified), StrCell(Text_UNVERIFIED),
        StrCell(Text_CancelledReady), StrCell(Text_NotReady), StrCell(Text_OnHold),
        IntCell(0)},
       {Absent, StrCell(<<>>), StrCell(Text_Blank), IntCell(0)} >>

PlainRecords ==
    {<<a, b, c, d, e, f, g, h, i>> :
        a \in Plain[1], b \in Plain[2], c \in Plain[3], d \in Plain[4], e \in Plain[5],
        f \in Plain[6], g \in Plain[7], h \in Plain[8], i \in Plain[9]}

\* a plain record (here with an unremarkable location and overall status) with one
\* column holding an unusual cell
VariedRecords ==
    UNION {{[r EXCEPT ![k] = x] :
               r \in {q \in PlainRecords : q[2] = StrCell(Text_OK) /\ q[4] = StrCell(Text_Done)},
               x \in Unusual[k]} : k \in 1..Len(RowColumns)}

\* records whose columns are all absent, NaN or "", uniformly or but for one column
EmptyCells == {Absent, NaN, StrCell(<<>>)}
EmptyRecords ==
    {[[k \in 1..Len(RowColumns) |-> e] EXCEPT ![j] = f] :
        e \in EmptyCells, f \in EmptyCells, j \in 1..Len(RowColumns)}

Records == PlainRecords \cup VariedRecords \cup EmptyRecords

\* the positions of a record's columns that the sheet has
PresentColumns(r) == SelectSeq([k \in 1..Len(r) |-> k], LAMBDA k : r[k].kind # "absent")

\* Sheets of the search runs: raw headers and the rows under them
Header_StaffName   == <<"S", "t", "a", "f", "f", " ", "N", "a", "m", "e">>
Header_AlohaStatus == <<"A", "l", "o", "h", "a", " ", "S", "t", "a", "t", "u", "s">>
Header_Phone       == <<"P", "h", "o", "n", "e">>
Header_OtherNotes  == <<"O", "t", "h", "e", "r", " ", "N", "o", "t", "e", "s">>

SearchSheets ==
    { [headers |-> <<Header_StaffName, Header_AlohaStatus>>,
       rows    |-> {<<n, a>> : n \in {StrCell(Text_JohnSmith), StrCell(Text_Jon), NaN},
                               a \in {StrCell(Text_Unverified), StrCell(Text_Ready),
                                      StrCell(Text_CancelledByClient)}}],
      [headers |-> <<Header_StaffName, Header_Phone, Header_AlohaStatus>>,
       rows    |-> {<<n, p, a>> : n \in {StrCell(Text_JohnSmith), StrCell(<<>>)},
                                  p \in {NaN, StrCell(<<>>), IntCell(5), StrCell(Text_JohnSmith)},
                                  a \in {StrCell(Text_Unverified)}}],
      [headers |-> <<Header_AlohaStatus, Header_OtherNotes>>,
       rows    |-> {<<a, o>> : a \in {StrCell(Text_Unverified), StrCell(Text_Ready)},
                               o \in {NaN, StrCell(Text_Jon)}}] }

Keywords == {<<>>, Text_jon, Text_JOHN, Text_na, <<" ">>}

\* the sequences of at most n elements of S
RECURSIVE SeqsUpTo(_, _)
SeqsUpTo(S, n) ==
    IF n = 0 THEN {<<>>}
    ELSE LET shorter == SeqsUpTo(S, n - 1)
         IN  shorter \cup {Append(s, x) : s \in shorter, x \in S}

\* Headers of the header runs
HeaderAlphabet == {"A", "b", "1", " ", "_", "U+00E9"}
SampleHeaders  == {<<"A", " ", "b">>, <<"a", "_", "b">>, <<"U+00DF", "U+00A0", "1">>}

\* everything main() has not computed yet
Fresh ==
    /\ pc = "loaded"
    /\ columns = <<>>
    /\ rename_map = <<>>
    /\ not_paid_reason = <<>>
    /\ unverified = <<>>
    /\ unverified_reason = <<>>
    /\ unverified_df = <<>>

\* a sheet of up to MaxRows rows with identity columns, and a search keyword
Init ==
    /\ \E sheet \in SearchSheets :
           /\ raw_columns = sheet.headers
           /\ data \in SeqsUpTo(sheet.rows, MaxRows)
    /\ keyword \in Keywords
    /\ Fresh

\* a sheet of one row over the columns the per-row functions read, no keyword
InitRow ==
    /\ \E r \in Records :
           /\ raw_columns = [k \in 1..Len(PresentColumns(r)) |-> RowColumns[PresentColumns(r)[k]]]
           /\ data = << [k \in 1..Len(PresentColumns(r)) |-> r[PresentColumns(r)[k]]] >>
    /\ keyword = <<>>
    /\ Fresh

\* an empty sheet with arbitrary headers, no keyword
InitHeaders ==
    /\ \E h \in SeqsUpTo(HeaderAlphabet, MaxHeaderLen) :
       \E more \in SeqsUpTo(SampleHeaders, MaxExtraHeaders) :
           raw_columns = <<h>> \o more
    /\ data = <<>>
    /\ keyword = <<>>
    /\ Fresh

Spec == Init /\ [][Next]_vars
SpecRow == InitRow /\ [][Next]_vars
SpecHeaders == InitHeaders /\ [][Next]_vars

-----------------------------------------------------------------------------
(* What the specification says of a record, for stating the properties *)

\* main() has derived the per-row columns
Derived == pc \in {"derived", "done"}

\* row i of the sheet under its canonical column names, as the per-row functions got it
canonical_row(i) == sheet_row(SubSeq(columns, 1, Len(raw_columns)), data[i])

\* FieldAccessor: the field as trimmed text; a missing column, a null cell and the
\* empty string all read as ""
Field(row, col) ==
    IF col \notin DOMAIN row \/ isna(row[col]) THEN <<>> ELSE strip(str(row[col]))

\* the row without its null and empty-string cells
WithoutEmpty(row) ==
    [c \in {d \in DOMAIN row : ~isna(row[d]) /\ row[d] # StrCell(<<>>)} |-> row[c]]

Pending == <<"p", "e", "n", "d", "i", "n", "g">>

\* the seven rules in their fixed order, each with its condition and its message
Rules(row) ==
    << [fires |-> lower(Field(row, payroll_process)) \in PayrollNegatives,
        message |-> MsgPayroll],
       [fires |-> Contains(<<"m", "i", "s", "s", "i", "n", "g", " ", "g", "p", "s">>,
                           lower(Field(row, location_status))),
        message |-> MsgGps],
       [fires |-> startswith(lower(Field(row, hours_status)), Pending),
        message |-> MsgHours \o Field(row, hours_status)],
       [fires |-> startswith(lower(Field(row, overall_status)), Pending),
        message |-> MsgOverall \o Field(row, overall_status)],
       [fires |-> Field(row, delta_vs_billing_hh_mm_ss) \notin ZeroDurations,
        message |-> MsgDelta \o Field(row, delta_vs_billing_hh_mm_ss)],
       [fires |-> /\ Field(row, parent_s_signature_approval_for_time_adjustment_signature) # <<>>
                  /\ Field(row, parent_s_signature_approval_for_time_adjustment_signature_time) = <<>>,
        message |-> MsgParent],
       [fires |-> /\ Field(row, aloha_status) # <<>>
                  /\ ~Contains(<<"r", "e", "a", "d", "y">>, lower(Field(row, aloha_status))),
        message |-> MsgAloha \o Field(row, aloha_status)] >>

\* the messages of the rules that fire, in rule order
FiredMessages(row) ==
    LET fired == SelectSeq(Rules(row), LAMBDA r : r.fires)
    IN  [k \in 1..Len(fired) |-> fired[k].message]

\* every cell of the row is text
AllText(row) == \A c \in DOMAIN row : row[c].kind = "str"

-----------------------------------------------------------------------------
(* Properties of the per-row functions (checked under SpecRow) *)

\* C1: for every record, not_paid_reason is exactly the messages of the rules
\* whose conditions hold, in the fixed rule order, joined with ", ", and it is
\* "Ready to bill" if and only if no rule fires.
C1_ReasonsInRuleOrder ==
    Derived =>
        \A i \in 1..Len(data) :
            LET msgs == FiredMessages(canonical_row(i))
            IN  /\ not_paid_reason[i] =
                       IF msgs = <<>> THEN ReadyToBill ELSE join(CommaSpace, msgs)
                /\ (not_paid_reason[i] = ReadyToBill) <=> (msgs = <<>>)

\* C1 on records whose cells are all text (or missing): there the rule order and
\* the joining hold
ReasonsInRuleOrderOnText ==
    Derived =>
        \A i \in 1..Len(data) :
            AllText(canonical_row(i)) =>
                LET msgs == FiredMessages(canonical_row(i))
                IN  not_paid_reason[i] =
                        IF msgs = <<>> THEN ReadyToBill ELSE join(CommaSpace, msgs)

\* C2: the result of derive_reasons does not depend on whether a field is absent,
\* null or the empty string; a record whose fields are all so is "Ready to bill".
C2_EmptyKindsAlike ==
    Derived =>
        \A i \in 1..Len(data) :
            /\ not_paid_reason[i] = derive_reasons(WithoutEmpty(canonical_row(i)))
            /\ DOMAIN WithoutEmpty(canonical_row(i)) = {} => not_paid_reason[i] = ReadyToBill

\* C4: not_paid_reason begins with "Payroll process flag is FALSE" when the
\* payroll_process cell, text or number, reads as false / 0 / no whatever the
\* case, and does not hold that message otherwise.
C4_PayrollFlag ==
    Derived =>
        \A i \in 1..Len(data) :
            IF lower(Field(canonical_row(i), payroll_process)) \in PayrollNegatives
            THEN startswith(not_paid_reason[i], MsgPayroll)
            ELSE ~Contains(MsgPayroll, not_paid_reason[i])

\* C5: the "Delta vs billing" message is present exactly when the trimmed
\* delta_vs_billing_hh_mm_ss is non-empty and not "0:00:00", "0:0:0" or "0", and
\* then it carries that value.
C5_DeltaRule ==
    Derived =>
        \A i \in 1..Len(data) :
            LET delta == Field(canonical_row(i), delta_vs_billing_hh_mm_ss)
            IN  IF delta \notin ZeroDurations
                THEN Contains(MsgDelta \o delta, not_paid_reason[i])
                ELSE ~Contains(MsgDelta, not_paid_reason[i])

\* C6: unverified is true exactly when the lowercased aloha_status contains
\* "unverified" or "cancelled"; a missing or null aloha_status gives false; it is
\* true for "Cancelled by client" and false for "Ready".
C6_UnverifiedFlag ==
    Derived =>
        \A i \in 1..Len(data) :
            LET row  == canonical_row(i)
                text == IF aloha_status \notin DOMAIN row \/ isna(row[aloha_status])
                        THEN <<>> ELSE lower(str(row[aloha_status]))
            IN  /\ unverified[i] <=>
                       \/ Contains(<<"u", "n", "v", "e", "r", "i", "f", "i", "e", "d">>, text)
                       \/ Contains(<<"c", "a", "n", "c", "e", "l", "l", "e", "d">>, text)
                /\ get(row, aloha_status) = StrCell(Text_CancelledByClient) => unverified[i]
                /\ get(row, aloha_status) = StrCell(Text_Ready) => ~unverified[i]

\* a record flagged for an upper-case "UNVERIFIED"
C6_Witness ==
    /\ Derived
    /\ Len(data) = 1
    /\ get(canonical_row(1), aloha_status) = StrCell(Text_UNVERIFIED)
    /\ unverified[1]

\* C7: unverified_reason is the trimmed other_notes when that is non-empty, else
\* the trimmed hours_status when that is non-empty, else "No reason provided";
\* missing, null and blank values count as empty and no other field matters.
C7_PreferredReason ==
    Derived =>
        \A i \in 1..Len(data) :
            LET notes == Field(canonical_row(i), other_notes)
                hours == Field(canonical_row(i), hours_status)
            IN  unverified_reason[i] =
                    IF notes # <<>> THEN notes
                    ELSE IF hours # <<>> THEN hours
                    ELSE NoReasonProvided

\* a record with blank other_notes whose reason falls back to its hours_status
C7_Witness ==
    /\ Derived
    /\ Len(data) = 1
    /\ get(canonical_row(1), other_notes) = StrCell(Text_Blank)
    /\ get(canonical_row(1), hours_status) = StrCell(Text_PendingReview)
    /\ unverified_reason[1] = Text_PendingReview

\* C10 as stated: every record flagged unverified has an "Aloha status {value}"
\* message in not_paid_reason and so is never "Ready to bill".
C10_UnverifiedHasAlohaReason ==
    Derived =>
        \A i \in 1..Len(data) :
            unverified[i] =>
                /\ Contains(MsgAloha \o Field(canonical_row(i), aloha_status), not_paid_reason[i])
                /\ not_paid_reason[i] # ReadyToBill

\* C10 amended: every record flagged unverified whose aloha_status does not
\* contain "ready" (whatever the case) has an "Aloha status {value}" message in
\* not_paid_reason and so is not "Ready to bill".
C10_UnverifiedNotReadyHasAlohaReason ==
    Derived =>
        \A i \in 1..Len(data) :
            (/\ unverified[i]
             /\ ~Contains(<<"r", "e", "a", "d", "y">>, lower(Field(canonical_row(i), aloha_status))))
            => /\ Contains(MsgAloha \o Field(canonical_row(i), aloha_status), not_paid_reason[i])
               /\ not_paid_reason[i] # ReadyToBill

\* a flagged record, "Cancelled by client", with no other rule firing
C10_Witness ==
    /\ Derived
    /\ Len(data) = 1
    /\ unverified[1]
    /\ get(canonical_row(1), aloha_status) = StrCell(Text_CancelledByClient)
    /\ not_paid_reason[1] = MsgAloha \o Text_CancelledByClient


-----------------------------------------------------------------------------
(* Properties of the fuzzy search and of the unverified view (checked under Spec) *)

\* the key row_matches searches for (line 134)
search_key == strip(lower(keyword))

\* row i has "John Smith" in one of the columns the search looks at and nothing
\* (null or "") in every other one
OnlyJohnSmith(i) ==
    LET cols == search_columns(columns)
    IN  \E k \in 1..Len(cols) :
            /\ df_row(i)[cols[k]] = StrCell(Text_JohnSmith)
            /\ \A j \in 1..Len(cols) : j # k => df_row(i)[cols[j]] \in {NaN, StrCell(<<>>)}

\* C3 as stated: the query "jon" matches a record whose only non-empty candidate
\* column is "John Smith", through the similarity tier (ratio >= 0.6).
C3_JonMatchesJohnSmith ==
    (pc = "done" /\ search_key = Text_jon) =>
        \A i \in 1..Len(data) :
            (unverified[i] /\ OnlyJohnSmith(i)) => \E k \in 1..Len(unverified_df) : unverified_df[k] = i

\* C3 amended: the query "jon" does not match such a record: "jon" is not a
\* substring of "john smith", and their Ratcliff/Obershelp ratio is 2*3/13, below
\* 0.6, so row_matches returns false and the record is not in the searched view.
C3_JonDoesNotMatchJohnSmith ==
    /\ matched_chars(Text_jon, lower(Text_JohnSmith)) = 3
    /\ ~ratio_at_least(Text_jon, lower(Text_JohnSmith), ThresholdNum, ThresholdDen)
    /\ (pc = "done" /\ search_key = Text_jon) =>
           \A i \in 1..Len(data) :
               (unverified[i] /\ OnlyJohnSmith(i)) =>
                   /\ ~row_matches(df_row(i), search_key, search_columns(columns))
                   /\ \A k \in 1..Len(unverified_df) : unverified_df[k] # i

\* an unverified "John Smith" (with a null phone) searched for "jon" and left out
C3_Witness ==
    /\ pc = "done"
    /\ keyword = Text_jon
    /\ Len(data) = 1
    /\ Len(raw_columns) = 3
    /\ unverified[1]
    /\ OnlyJohnSmith(1)
    /\ df_row(1)[staff_name] = StrCell(Text_JohnSmith)
    /\ df_row(1)[phone] = NaN
    /\ unverified_df = <<>>

\* C9: the unverified view holds exactly the rows flagged unverified when no
\* keyword is given, and with a keyword exactly those of them that row_matches
\* accepts; its rows are in sheet order, none twice; and the derived columns have
\* one entry per sheet row, in sheet order.
C9_ViewIsOrderedFilter ==
    /\ Derived =>
           /\ Len(not_paid_reason) = Len(data)
           /\ Len(unverified) = Len(data)
           /\ Len(unverified_reason) = Len(data)
           /\ \A i \in 1..Len(data) :
                  /\ not_paid_reason[i] = derive_reasons(canonical_row(i))
                  /\ unverified[i] = is_unverified(canonical_row(i))
                  /\ unverified_reason[i] = row_reason_from_notes_or_hours(canonical_row(i))
    /\ pc = "done" =>
           /\ \A j \in 1..Len(unverified_df) : \A k \in 1..Len(unverified_df) :
                  j < k => unverified_df[j] < unverified_df[k]
           /\ Range(unverified_df) =
                  {i \in 1..Len(data) :
                      /\ unverified[i]
                      /\ keyword # <<>> =>
                             row_matches(df_row(i), search_key, search_columns(columns))}

\* two flagged rows searched for "jon": "John Smith" is dropped, "Jon" is kept
C9_Witness ==
    /\ pc = "done"
    /\ keyword = Text_jon
    /\ Len(data) = 2
    /\ unverified = <<TRUE, TRUE>>
    /\ df_row(1)[staff_name] = StrCell(Text_JohnSmith)
    /\ df_row(2)[staff_name] = StrCell(Text_Jon)
    /\ unverified_df = <<2>>

-----------------------------------------------------------------------------
(* Properties of normalize_columns (checked under SpecHeaders) *)

\* runs of [0-9a-z] separated by single underscores, none leading or trailing
IsCanonical(id) ==
    /\ \A k \in 1..Len(id) : id[k] \in AlnumLower \cup {"_"}
    /\ id # <<>> => id[1] # "_" /\ id[Len(id)] # "_"
    /\ \A k \in 1..(Len(id) - 1) : ~(id[k] = "_" /\ id[k + 1] = "_")

\* C8: normalize_columns returns as many identifiers as there are headers, in
\* header order, each canonical, and normalising its output again changes nothing.
C8_NormalizeIdempotent ==
    pc = "normalized" =>
        /\ Len(columns) = Len(raw_columns)
        /\ \A i \in 1..Len(columns) :
               /\ columns[i] = rename_map[raw_columns[i]]
               /\ IsCanonical(columns[i])
        /\ normalize_columns(columns).columns = columns
        /\ \A i \in 1..Len(columns) : normalize_columns(columns).rename[columns[i]] = columns[i]

\* a header with an accented letter between separators and a capital, normalised
\* next to a second header
C8_Witness ==
    /\ pc = "normalized"
    /\ raw_columns = << <<"_", "U+00E9", "A">>, <<"A", " ", "b">> >>
    /\ columns = << <<"e", "a">>, <<"a", "_", "b">> >>


=============================================================================
